---- MODULE Spec2Model ----
(***************************************************************************)
(* pgfs: rows of a PostgreSQL table presented as files of a FUSE           *)
(* filesystem (src/src/main.rs).  The model is the ByteaFileSystem struct, *)
(* the database it talks to, and one action per request handler.           *)
(*                                                                         *)
(* Byte strings (Vec<u8>, bytea) are kept run-length encoded, so that the   *)
(* 2 MiB cache limit of `write` keeps its real value: a byte string is a    *)
(* sequence of runs [b |-> byte, n |-> count], adjacent runs differing in b.*)
(* Option<T> is the empty sequence (None / SQL NULL) or <<x>> (Some(x)).    *)
(***************************************************************************)
EXTENDS Integers, Sequences, FiniteSets, TLC

(***************************************************************************)
(* Bounds of the exploration                                               *)
(***************************************************************************)
\* number of requests delivered in one behaviour
MaxOps == 3
\* largest inode number the environment lets the allocator reach
MaxInode == 5

(***************************************************************************)
(* Program constants                                                       *)
(***************************************************************************)
\* main.rs:550  cached_data.len() + data.len() <= 2097152
CACHE_LIMIT == 2097152
\* main.rs:88, 100  blksize / divisor of the block count of a file
BLKSIZE == 512 * 1024
MiB == 1024 * 1024
\* the maximum write size init advertises to the kernel
MAX_WRITE == 1024 * 128
\* std::time::UNIX_EPOCH
UNIX_EPOCH == 0

(***************************************************************************)
(* Byte strings                                                            *)
(***************************************************************************)
Run(b, n) == IF n <= 0 THEN <<>> ELSE <<[b |-> b, n |-> n]>>

RECURSIVE BLen(_)
BLen(s) == IF s = <<>> THEN 0 ELSE Head(s).n + BLen(Tail(s))

\* Vec::extend_from_slice / bytea || bytea
BCat(a, b) ==
    IF a = <<>> THEN b
    ELSE IF b = <<>> THEN a
    ELSE IF a[Len(a)].b = b[1].b
         THEN SubSeq(a, 1, Len(a) - 1)
                \o <<[b |-> b[1].b, n |-> a[Len(a)].n + b[1].n]>>
                \o Tail(b)
         ELSE a \o b

RECURSIVE BTake(_, _)
BTake(s, k) ==
    IF k <= 0 \/ s = <<>> THEN <<>>
    ELSE IF Head(s).n <= k THEN BCat(<<Head(s)>>, BTake(Tail(s), k - Head(s).n))
    ELSE <<[b |-> Head(s).b, n |-> k]>>

RECURSIVE BDrop(_, _)
BDrop(s, k) ==
    IF k <= 0 \/ s = <<>> THEN s
    ELSE IF Head(s).n <= k THEN BDrop(Tail(s), k - Head(s).n)
    ELSE <<[b |-> Head(s).b, n |-> Head(s).n - k]>> \o Tail(s)

\* PostgreSQL substring(bytea, start, count), start >= 1, count >= 0
pg_substring(d, start, count) == BTake(BDrop(d, start - 1), count)

\* PostgreSQL overlay(d placing new from start for count):
\*   substring(d, 1, start-1) || new || substring(d, start+count)
pg_overlay(d, new, start, count) ==
    BCat(BCat(BTake(d, start - 1), new), BDrop(d, start + count - 1))

None == <<>>
Some(x) == <<x>>

Max(a, b) == IF a >= b THEN a ELSE b

\* the function m without key k (HashMap::remove)
MapRemove(m, k) == [x \in DOMAIN m \ {k} |-> m[x]]
\* HashMap::insert
MapInsert(m, k, v) == [x \in DOMAIN m \cup {k} |-> IF x = k THEN v ELSE m[x]]
\* BiMap::insert: any pair holding the left or the right value is dropped first
BiMapInsert(m, l, r) ==
    [x \in {k \in DOMAIN m : m[k] # r} \cup {l} |-> IF x = l THEN r ELSE m[x]]

(***************************************************************************)
(* The database: per table, the rows (id -> name, data, created, modified) *)
(* and the serial that numbers inserted rows.  The name column is unique   *)
(* per table (config.rs:77-79).                                            *)
(***************************************************************************)
Row(name, data) == [name |-> name, data |-> data, created |-> None, modified |-> None]

Names(tbl) == {tbl.rows[i].name : i \in DOMAIN tbl.rows}

\* does the database accept the statement (constraints only)
DbAccepts(d, st) ==
    LET tbl == d[st.table] IN
    CASE st.kind = "insert" -> st.name \notin Names(tbl)
      [] st.kind = "rename" ->
            \/ st.old = st.new
            \/ st.old \notin Names(tbl)
            \/ st.new \notin Names(tbl)
      [] OTHER -> TRUE

\* the rows of a table after an accepted statement
DbRows(tbl, st) ==
    LET rows == tbl.rows IN
    CASE st.kind = "overlay" ->
            \* update T set D = coalesce(overlay(D placing $1 from $2 for $3), $1) where ID = $4
            [i \in DOMAIN rows |->
                IF i # st.id THEN rows[i]
                ELSE [rows[i] EXCEPT !.data =
                        IF @ = None THEN Some(st.data)
                        ELSE Some(pg_overlay(@[1], st.data, st.from, st.for))]]
      [] st.kind = "truncate" ->
            \* update T set D = substring(D, 1, $1) where ID = $2
            [i \in DOMAIN rows |->
                IF i # st.id THEN rows[i]
                ELSE [rows[i] EXCEPT !.data =
                        IF @ = None THEN None ELSE Some(pg_substring(@[1], 1, st.size))]]
      [] st.kind = "delete" -> MapRemove(rows, st.id)
      [] st.kind = "insert" -> MapInsert(rows, tbl.serial, Row(st.name, None))
      [] st.kind = "rename" ->
            [i \in DOMAIN rows |->
                IF rows[i].name = st.old THEN [rows[i] EXCEPT !.name = st.new] ELSE rows[i]]
      [] st.kind = "set_created" ->
            [i \in DOMAIN rows |->
                IF i = st.id THEN [rows[i] EXCEPT !.created = Some(st.time)] ELSE rows[i]]
      [] st.kind = "set_modified" ->
            [i \in DOMAIN rows |->
                IF i = st.id THEN [rows[i] EXCEPT !.modified = Some(st.time)] ELSE rows[i]]
      [] OTHER -> rows

DbApply(d, st) ==
    [d EXCEPT ![st.table] =
        [rows |-> DbRows(@, st),
         serial |-> IF st.kind = "insert" THEN @.serial + 1 ELSE @.serial]]

\* the listing query: one row per table row, in id order
RECURSIVE SortedIds(_)
SortedIds(S) ==
    IF S = {} THEN <<>>
    ELSE LET m == CHOOSE x \in S : \A y \in S : x <= y IN <<m>> \o SortedIds(S \ {m})

Listing(tbl) ==
    LET ids == SortedIds(DOMAIN tbl.rows) IN
    [k \in 1..Len(ids) |->
        LET r == tbl.rows[ids[k]] IN
        [id |-> ids[k], name |-> r.name,
         length |-> IF r.data = None THEN None ELSE Some(BLen(r.data[1])),
         created |-> r.created, modified |-> r.modified]]

\* Client::execute / query / query_one: the k-th call of a handler fails when
\* oks[k] is FALSE or the database rejects the statement; every call is logged
\* in sql with its outcome.
exec(s, st, oks) ==
    LET k == Len(s.sql) + 1
        ok == oks[k] /\ DbAccepts(s.db, st)
    IN [s EXCEPT !.sql = Append(@, [st |-> st, ok |-> ok]),
                 !.db = IF ok THEN DbApply(@, st) ELSE @]

LastOk(s) == s.sql[Len(s.sql)].ok

(***************************************************************************)
(* Replies                                                                 *)
(***************************************************************************)
NoReply == [kind |-> "none"]
ReplyError(e) == [kind |-> "error", code |-> e]
ReplyOk == [kind |-> "ok"]
ReplyEntry(attr) == [kind |-> "entry", attr |-> attr]
ReplyAttr(attr) == [kind |-> "attr", attr |-> attr]
ReplyData(d) == [kind |-> "data", data |-> d]
ReplyWritten(n) == [kind |-> "written", size |-> n]
ReplyCreated(attr) == [kind |-> "created", attr |-> attr]
ReplyDir(buf) == [kind |-> "dir", entries |-> buf]

(***************************************************************************)
(* ByteaFileSystem                                                         *)
(***************************************************************************)
dir_file_attr(inode) ==
    [ino |-> inode, size |-> 0, blocks |-> 0, mtime |-> UNIX_EPOCH, ctime |-> UNIX_EPOCH,
     kind |-> "Directory", blksize |-> 512 * 1024]

file_attr(inode, size, ctime, mtime) ==
    [ino |-> inode, size |-> size, blocks |-> (size + 1) \div (512 * 1024),
     mtime |-> IF mtime = None THEN UNIX_EPOCH ELSE mtime[1],
     ctime |-> IF ctime = None THEN UNIX_EPOCH ELSE ctime[1],
     kind |-> "RegularFile", blksize |-> 512 * 1024]

ROOT ==
    [ino |-> 1, size |-> 0, blocks |-> 0, mtime |-> UNIX_EPOCH, ctime |-> UNIX_EPOCH,
     kind |-> "Directory", blksize |-> 512]

\* ByteaFileSystem::new(name, db_client, tables); d is the database the client
\* is connected to, order the iteration order of the `tables` HashMap
new(tabs, d, order) ==
    [next_inode |-> Len(tabs) + 1,
     tables |-> [n \in {tabs[i].table_name : i \in 1..Len(tabs)} |->
                    LET i == CHOOSE i \in 1..Len(tabs) : tabs[i].table_name = n IN tabs[i]],
     tables_order |-> order,
     inode_file_attrs |-> [i \in 2..(Len(tabs) + 1) |-> dir_file_attr(i)],
     table_dir_inodes |-> [i \in 2..(Len(tabs) + 1) |-> tabs[i - 1].table_name],
     file_inodes |-> <<>>,
     entries |-> <<>>,
     cache |-> <<>>,
     db |-> d,
     status |-> "mounted",
     reply |-> NoReply,
     sql |-> <<>>]

\* the state at the start of a handler: nothing replied, no SQL issued yet
Begin(s) == [s EXCEPT !.reply = NoReply, !.sql = <<>>]

ChildNode(parent, name) == [parent |-> parent, name |-> name]
PgId(table_inode, pg_id) == [table_inode |-> table_inode, pg_id |-> pg_id]

overlay_stmt(fi, offset, bytes) ==
    [kind |-> "overlay", table |-> fi.table.table_name, data |-> bytes,
     from |-> offset + 1, for |-> BLen(bytes), id |-> fi.pgid.pg_id]

\* main.rs:222-227
set_new_len(s, ino, new_len) ==
    IF ino \in DOMAIN s.inode_file_attrs /\ new_len # None
    THEN LET size == Max(s.inode_file_attrs[ino].size, new_len[1]) IN
         [s EXCEPT !.inode_file_attrs[ino].size = size,
                   !.inode_file_attrs[ino].blocks =
                        (size + 1) \div s.inode_file_attrs[ino].blksize]
    ELSE s

\* the overlay of the pending entry followed by the new data, main.rs:189-203
write_cached_then_new(s0, ino, fi, c, data, oks) ==
    LET s1 == exec(s0, overlay_stmt(fi, c.offset, c.data), oks) IN
    IF ~LastOk(s1) THEN s1
    ELSE LET len1 == c.offset + 0 + BLen(c.data)
             s2 == exec(s1, overlay_stmt(fi, data.offset, data.data), oks)
             len2 == IF LastOk(s2) THEN c.offset + len1 + BLen(c.data) ELSE len1
         IN set_new_len(s2, ino, Some(len2))

\* the pending entry extended by new data that follows it, main.rs:179-188
write_cached_with_new(s0, ino, fi, c, data, oks) ==
    LET cached_data == BCat(c.data, data.data)
        s1 == exec(s0, overlay_stmt(fi, c.offset, cached_data), oks)
    IN IF ~LastOk(s1) THEN s1
       ELSE set_new_len(s1, ino, Some(c.offset + BLen(cached_data)))

\* the pending entry alone, main.rs:204-211
write_cached(s0, ino, fi, c, oks) ==
    LET s1 == exec(s0, overlay_stmt(fi, c.offset, c.data), oks) IN
    IF ~LastOk(s1) THEN s1
    ELSE set_new_len(s1, ino, Some(c.offset + BLen(c.data)))

\* data is None or Some([offset, data])
write_data_to_postgres(s, ino, data, oks) ==
    IF ino \notin DOMAIN s.file_inodes THEN s
    ELSE LET fi == s.file_inodes[ino] IN
         IF ino \in DOMAIN s.cache
         THEN LET c == s.cache[ino]
                  s0 == [s EXCEPT !.cache = MapRemove(@, ino)]
              IN IF data # None
                 THEN IF c.offset + BLen(c.data) = data[1].offset
                      THEN write_cached_with_new(s0, ino, fi, c, data[1], oks)
                      ELSE write_cached_then_new(s0, ino, fi, c, data[1], oks)
                 ELSE write_cached(s0, ino, fi, c, oks)
         ELSE IF data # None
              THEN LET s1 == exec(s, overlay_stmt(fi, data[1].offset, data[1].data), oks) IN
                   IF ~LastOk(s1) THEN s1
                   ELSE set_new_len(s1, ino, Some(BLen(data[1].data)))
              ELSE s

flush_internal(s, ino, oks) == write_data_to_postgres(s, ino, None, oks)

\* a variant of insert_file that gives the new file the smallest free inode
insert_file_reuses_inode(s, parent, name, now, oks) ==
    LET table_name == s.table_dir_inodes[parent]
        table == s.tables[table_name]
        free == {i \in 2..(s.next_inode + 1) :
                    i \notin DOMAIN s.table_dir_inodes /\ i \notin DOMAIN s.file_inodes}
        inode == CHOOSE i \in free : \A j \in free : i <= j
        s1 == [s EXCEPT !.next_inode = Max(@, inode)]
        id == s.db[table_name].serial
        s2 == exec(s1, [kind |-> "insert", table |-> table_name, name |-> name], oks)
    IN IF ~LastOk(s2) THEN [st |-> s2, res |-> None, err |-> "ENOSYS"]
       ELSE [st |-> [s2 EXCEPT
                      !.file_inodes = MapInsert(@, inode, [table |-> table, pgid |-> PgId(parent, id)]),
                      !.entries = BiMapInsert(@, ChildNode(parent, name), inode),
                      !.inode_file_attrs = MapInsert(@, inode, file_attr(inode, 0, Some(now), Some(now)))],
             res |-> Some(inode), err |-> "none"]

\* the body shared by create_internal (main.rs:142-168) and create
\* (main.rs:738-763): the result carries res = Some(inode) | None and err
insert_file(s, parent, name, now, oks) ==
    LET table_name == s.table_dir_inodes[parent]
        table == s.tables[table_name]
        s1 == [s EXCEPT !.next_inode = @ + 1]
        inode == s1.next_inode
        id == s.db[table_name].serial
        s2 == exec(s1, [kind |-> "insert", table |-> table_name, name |-> name], oks)
    IN IF ~LastOk(s2) THEN [st |-> s2, res |-> None, err |-> "ENOSYS"]
       ELSE [st |-> [s2 EXCEPT
                      !.file_inodes = MapInsert(@, inode, [table |-> table, pgid |-> PgId(parent, id)]),
                      !.entries = BiMapInsert(@, ChildNode(parent, name), inode),
                      !.inode_file_attrs = MapInsert(@, inode, file_attr(inode, 0, Some(now), Some(now)))],
             res |-> Some(inode), err |-> "none"]

create_internal(s, parent, name, now, oks) ==
    IF parent = 1 THEN [st |-> s, res |-> None, err |-> "ENOENT"]
    ELSE IF parent \in DOMAIN s.table_dir_inodes
              /\ s.table_dir_inodes[parent] \in DOMAIN s.tables
         THEN IF s.tables[s.table_dir_inodes[parent]].read_only
              THEN [st |-> s, res |-> None, err |-> "EROFS"]
              ELSE insert_file(s, parent, name, now, oks)
         ELSE [st |-> s, res |-> None, err |-> "ENOSYS"]

(***************************************************************************)
(* impl Filesystem for ByteaFileSystem: one operator per request handler.  *)
(* Each takes the state before the request and gives the state after it,   *)
(* with the reply sent and the SQL issued.                                 *)
(***************************************************************************)
\* this is for filesystem exit
destroy(s0) ==
    [Begin(s0) EXCEPT !.inode_file_attrs = <<>>, !.file_inodes = <<>>, !.entries = <<>>,
                      !.tables = <<>>, !.cache = <<>>, !.status = "destroyed"]

lookup(s0, parent, name) ==
    LET s == Begin(s0) IN
    IF parent = 1
    THEN IF \E i \in DOMAIN s.table_dir_inodes : s.table_dir_inodes[i] = name
         THEN LET inode == CHOOSE i \in DOMAIN s.table_dir_inodes : s.table_dir_inodes[i] = name
              IN [s EXCEPT !.reply = ReplyEntry(dir_file_attr(inode))]
         ELSE [s EXCEPT !.reply = ReplyError("ENOENT")]
    ELSE IF ChildNode(parent, name) \in DOMAIN s.entries
         THEN LET inode == s.entries[ChildNode(parent, name)] IN
              IF inode \in DOMAIN s.inode_file_attrs
              THEN [s EXCEPT !.reply = ReplyEntry(s.inode_file_attrs[inode])]
              ELSE s
         ELSE [s EXCEPT !.reply = ReplyError("ENOENT")]

getattr(s0, ino) ==
    LET s == Begin(s0) IN
    IF ino = 1 THEN [s EXCEPT !.reply = ReplyAttr(ROOT)]
    ELSE IF ino \in DOMAIN s.inode_file_attrs
         THEN [s EXCEPT !.reply = ReplyAttr(s.inode_file_attrs[ino])]
         ELSE [s EXCEPT !.reply = ReplyError("ENOENT")]

\* main.rs:396-410: the size of setattr
setattr_size(s, ino, size, oks) ==
    IF size # None /\ ino \in DOMAIN s.file_inodes
    THEN LET fi == s.file_inodes[ino]
             s1 == exec(s, [kind |-> "truncate", table |-> fi.table.table_name,
                            size |-> size[1], id |-> fi.pgid.pg_id], oks)
             error == IF LastOk(s1) THEN None ELSE Some("EIO")
         IN [st |-> IF ino \in DOMAIN s1.inode_file_attrs
                    THEN [s1 EXCEPT !.inode_file_attrs[ino].size = size[1]]
                    ELSE s1,
             error |-> error]
    ELSE [st |-> s, error |-> None]

\* main.rs:411-421: the created time of setattr
setattr_ctime(r, ino, ctime, oks) ==
    LET s == r.st IN
    IF ino \in DOMAIN s.file_inodes /\ ctime # None
          /\ s.file_inodes[ino].table.created_field # None
    THEN LET fi == s.file_inodes[ino]
             s1 == exec(s, [kind |-> "set_created", table |-> fi.table.table_name,
                            time |-> ctime[1], id |-> fi.pgid.pg_id], oks)
         IN [st |-> IF ino \in DOMAIN s1.inode_file_attrs
                    THEN [s1 EXCEPT !.inode_file_attrs[ino].ctime = ctime[1]]
                    ELSE s1,
             error |-> IF LastOk(s1) THEN r.error ELSE Some("EPERM")]
    ELSE r

\* main.rs:422-436: the modified time of setattr; mtime is None,
\* Some([now |-> TRUE]) or Some([now |-> FALSE, t |-> time])
setattr_mtime(r, ino, mtime, now, oks) ==
    LET s == r.st IN
    IF ino \in DOMAIN s.file_inodes /\ mtime # None
          /\ s.file_inodes[ino].table.modified_field # None
    THEN LET fi == s.file_inodes[ino]
             time == IF mtime[1].now THEN now ELSE mtime[1].t
             s1 == exec(s, [kind |-> "set_modified", table |-> fi.table.table_name,
                            time |-> time, id |-> fi.pgid.pg_id], oks)
         IN [st |-> IF ino \in DOMAIN s1.inode_file_attrs
                    THEN [s1 EXCEPT !.inode_file_attrs[ino].mtime = time]
                    ELSE s1,
             error |-> IF LastOk(s1) THEN r.error ELSE Some("EPERM")]
    ELSE r

setattr(s0, ino, size, mtime, ctime, now, oks) ==
    LET r1 == setattr_size(Begin(s0), ino, size, oks)
        r2 == setattr_ctime(r1, ino, ctime, oks)
        r3 == setattr_mtime(r2, ino, mtime, now, oks)
        s == r3.st
    IN IF r3.error = None /\ ino \in DOMAIN s.inode_file_attrs
       THEN [s EXCEPT !.reply = ReplyAttr(s.inode_file_attrs[ino])]
       ELSE [s EXCEPT !.reply =
                ReplyError(IF r3.error = None THEN "ENODATA" ELSE r3.error[1])]

\* main.rs:471-481: the row and the records of an unlinked inode
\* a variant of unlink_inode that leaves the attribute record behind
unlink_inode_keeps_attr(s, table, ino, oks) ==
    IF ino \in DOMAIN s.file_inodes
    THEN LET s1 == exec(s, [kind |-> "delete", table |-> table.table_name,
                            id |-> s.file_inodes[ino].pgid.pg_id], oks)
         IN [s1 EXCEPT !.cache = MapRemove(@, ino),
                       !.file_inodes = MapRemove(@, ino)]
    ELSE s

unlink_inode(s, table, ino, oks) ==
    IF ino \in DOMAIN s.file_inodes
    THEN LET s1 == exec(s, [kind |-> "delete", table |-> table.table_name,
                            id |-> s.file_inodes[ino].pgid.pg_id], oks)
         IN [s1 EXCEPT !.cache = MapRemove(@, ino),
                       !.file_inodes = MapRemove(@, ino),
                       !.inode_file_attrs = MapRemove(@, ino)]
    ELSE s

unlink(s0, parent, name, oks) ==
    LET s == Begin(s0)
        child == ChildNode(parent, name)
    IN IF child \in DOMAIN s.entries
       THEN LET s1 == [s EXCEPT !.entries = MapRemove(@, child)] IN
            IF parent \in DOMAIN s.table_dir_inodes
                  /\ s.table_dir_inodes[parent] \in DOMAIN s.tables
            THEN [unlink_inode(s1, s.tables[s.table_dir_inodes[parent]], s.entries[child], oks)
                    EXCEPT !.reply = ReplyOk]
            ELSE [s1 EXCEPT !.status = "panicked"]
       ELSE [s EXCEPT !.reply = ReplyOk]

rename(s0, parent, name, newparent, newname, oks) ==
    LET s == Begin(s0) IN
    IF parent # newparent THEN [s EXCEPT !.reply = ReplyError("ENOSYS")]
    ELSE IF parent \in DOMAIN s.table_dir_inodes
              /\ s.table_dir_inodes[parent] \in DOMAIN s.tables
         THEN LET s1 == exec(s, [kind |-> "rename", table |-> s.table_dir_inodes[parent],
                                 new |-> newname, old |-> name], oks)
              IN IF ~LastOk(s1) THEN [s1 EXCEPT !.reply = ReplyError("EIO")]
                 ELSE [s1 EXCEPT !.reply = ReplyOk]
         ELSE [s EXCEPT !.reply = ReplyOk]

\* the bytes the positional read query gives for a row, None when no row
select_data(d, st) ==
    LET rows == d[st.table].rows IN
    IF st.id \notin DOMAIN rows THEN None
    ELSE IF rows[st.id].data = None THEN Some(<<>>)
    ELSE Some(pg_substring(rows[st.id].data[1], st.from, st.for))

read(s0, ino, offset, size, oks) ==
    LET s1 == write_data_to_postgres(Begin(s0), ino, None, oks) IN
    IF ino \in DOMAIN s1.file_inodes
    THEN LET fi == s1.file_inodes[ino]
             st == [kind |-> "select_data", table |-> fi.table.table_name,
                    id |-> fi.pgid.pg_id, from |-> 1 + offset, for |-> size]
             s2 == exec(s1, st, oks)
             res == select_data(s2.db, st)
         IN IF LastOk(s2) /\ res # None
            THEN [s2 EXCEPT !.reply = ReplyData(res[1])]
            ELSE [s2 EXCEPT !.reply = ReplyData(<<>>)]
    ELSE [s1 EXCEPT !.reply = ReplyError("ENOENT")]

\* main.rs:551-555: the pending entry grows by data
\* a variant of cache_extend that keeps only the newest bytes of the entry
cache_extend_newest(s, ino, offset, data) ==
    [s EXCEPT !.cache[ino] = [offset |-> offset, data |-> data]]

cache_extend(s, ino, offset, data) ==
    LET s1 == [s EXCEPT !.cache[ino].data = BCat(@, data)] IN
    IF ino \in DOMAIN s1.inode_file_attrs
    THEN LET size == Max(s1.inode_file_attrs[ino].size, offset + BLen(data)) IN
         [s1 EXCEPT !.inode_file_attrs[ino].size = size,
                    !.inode_file_attrs[ino].blocks =
                        (size + 1) \div s1.inode_file_attrs[ino].blksize]
    ELSE s1

\* a variant of can_extend whose limit is exclusive
can_extend_below(c, offset, data) ==
    c.offset + BLen(c.data) = offset /\ BLen(c.data) + BLen(data) < CACHE_LIMIT

\* a variant of can_extend that only asks for contiguity
can_extend_any_length(c, offset, data) ==
    c.offset + BLen(c.data) = offset

\* main.rs:550: may data be appended to the pending entry c
can_extend(c, offset, data) ==
    c.offset + BLen(c.data) = offset /\ BLen(c.data) + BLen(data) <= CACHE_LIMIT

write(s0, ino, offset, data, oks) ==
    LET s == Begin(s0)
        s1 == IF ino \in DOMAIN s.cache
              THEN IF can_extend(s.cache[ino], offset, data)
                   THEN cache_extend(s, ino, offset, data)
                   ELSE write_data_to_postgres(s, ino, Some([offset |-> offset, data |-> data]), oks)
              ELSE [s EXCEPT !.cache = MapInsert(@, ino, [offset |-> offset, data |-> data])]
    IN [s1 EXCEPT !.reply = ReplyWritten(BLen(data))]

flush(s0, ino, oks) ==
    [write_data_to_postgres(Begin(s0), ino, None, oks) EXCEPT !.reply = ReplyOk]

release(s0, ino, oks) ==
    [write_data_to_postgres(Begin(s0), ino, None, oks) EXCEPT !.reply = ReplyOk]

fsync(s0, ino, oks) ==
    [write_data_to_postgres(Begin(s0), ino, None, oks) EXCEPT !.reply = ReplyOk]

\* ReplyDirectory::add: the entry is taken unless the buffer (cap entries) is full
add(buf, ino, offset, kind, name, cap) ==
    IF Len(buf) < cap
    THEN Append(buf, [ino |-> ino, offset |-> offset, kind |-> kind, name |-> name])
    ELSE buf

\* main.rs:597-612: ".", "..", then the tables in the HashMap's iteration order,
\* numbered 2, 3, ... in that order; the loop breaks at the first entry refused
readdir_root(s, offset, cap) ==
    LET all == << [ino |-> 1, kind |-> "Directory", name |-> "."],
                  [ino |-> 1, kind |-> "Directory", name |-> ".."] >>
               \o [k \in 1..Len(s.tables_order) |->
                     [ino |-> k + 1, kind |-> "Directory",
                      name |-> s.tables[s.tables_order[k]].table_name]]
        last == IF offset + cap < Len(all) THEN offset + cap ELSE Len(all)
    IN [k \in 1..Max(last - offset, 0) |->
            [ino |-> all[offset + k].ino, offset |-> offset + k,
             kind |-> all[offset + k].kind, name |-> all[offset + k].name]]

\* main.rs:633-664: a listing row whose name is not bound gets a fresh inode
\* a variant of bind_row that creates no attribute record
bind_row_without_attr(s, ino, table, row) ==
    LET inode == s.next_inode + 1 IN
    [s EXCEPT !.next_inode = inode,
              !.file_inodes = MapInsert(@, inode, [table |-> table, pgid |-> PgId(ino, row.id)]),
              !.entries = BiMapInsert(@, ChildNode(ino, row.name), inode)]

bind_row(s, ino, table, row) ==
    LET inode == s.next_inode + 1
        size == IF row.length = None THEN 0 ELSE row.length[1]
        mtime == IF table.modified_field # None THEN row.modified ELSE None
        ctime == IF table.created_field # None THEN row.created ELSE None
    IN [s EXCEPT !.next_inode = inode,
                 !.inode_file_attrs = MapInsert(@, inode, file_attr(inode, size, ctime, mtime)),
                 !.file_inodes = MapInsert(@, inode, [table |-> table, pgid |-> PgId(ino, row.id)]),
                 !.entries = BiMapInsert(@, ChildNode(ino, row.name), inode)]

\* a variant of readdir_rows that gives every row a fresh inode, bound or not
RECURSIVE readdir_rows_rebinds(_, _, _, _, _, _, _)
readdir_rows_rebinds(a, ino, table, rows, k, i, cap) ==
    IF k > Len(rows) THEN a
    ELSE LET s1 == bind_row(a.st, ino, table, rows[k]) IN
         readdir_rows_rebinds(
            [st |-> s1,
             buf |-> add(a.buf, s1.next_inode, i, "RegularFile", rows[k].name, cap)],
            ino, table, rows, k + 1, i + 1, cap)

\* main.rs:625-667: the loop over the listing rows from the k-th on; i is the
\* offset cookie of the next entry, a = [st, buf]
RECURSIVE readdir_rows(_, _, _, _, _, _, _)
readdir_rows(a, ino, table, rows, k, i, cap) ==
    IF k > Len(rows) THEN a
    ELSE LET row == rows[k]
             child == ChildNode(ino, row.name)
         IN IF child \in DOMAIN a.st.entries
            THEN readdir_rows(
                    [st |-> a.st,
                     buf |-> add(a.buf, a.st.entries[child], i, "RegularFile", row.name, cap)],
                    ino, table, rows, k + 1, i + 1, cap)
            ELSE LET s1 == bind_row(a.st, ino, table, row) IN
                 readdir_rows(
                    [st |-> s1,
                     buf |-> add(a.buf, s1.next_inode, i, "RegularFile", row.name, cap)],
                    ino, table, rows, k + 1, i + 1, cap)

readdir(s0, ino, offset, cap, oks) ==
    LET s == Begin(s0) IN
    IF ino = 1 THEN [s EXCEPT !.reply = ReplyDir(readdir_root(s, offset, cap))]
    ELSE IF ino > 1 /\ ino \in DOMAIN s.table_dir_inodes
         THEN LET table_name == s.table_dir_inodes[ino]
                  b1 == IF offset = 0 THEN add(<<>>, ino, 1, "Directory", ".", cap) ELSE <<>>
                  b2 == IF offset <= 1 THEN add(b1, ino, 2, "Directory", "..", cap) ELSE b1
              IN IF table_name \in DOMAIN s.tables
                 THEN LET table == s.tables[table_name]
                          s1 == exec(s, [kind |-> "select_list", table |-> table_name], oks)
                      IN IF ~LastOk(s1) THEN [s1 EXCEPT !.status = "panicked"]
                         ELSE LET a == readdir_rows([st |-> s1, buf |-> b2], ino, table,
                                                    Listing(s1.db[table_name]),
                                                    Max(offset - 2, 0) + 1, 3, cap)
                              IN [a.st EXCEPT !.reply = ReplyDir(a.buf)]
                 ELSE [s EXCEPT !.reply = ReplyDir(b2)]
         ELSE s

mknod(s0, parent, name, now, oks) ==
    LET r == create_internal(Begin(s0), parent, name, now, oks) IN
    IF r.res # None
    THEN [r.st EXCEPT !.reply = ReplyEntry(file_attr(r.res[1], 0, Some(now), Some(now)))]
    ELSE [r.st EXCEPT !.reply = ReplyError(r.err)]

\* a variant of create that allocates the inode before it looks at the parent
create_allocates_first(s0, parent, name, now, oks) ==
    LET s == [Begin(s0) EXCEPT !.next_inode = @ + 1] IN
    IF parent = 1 THEN [s EXCEPT !.reply = ReplyError("ENOENT")]
    ELSE IF parent \in DOMAIN s.table_dir_inodes
              /\ s.table_dir_inodes[parent] \in DOMAIN s.tables
         THEN IF s.tables[s.table_dir_inodes[parent]].read_only
              THEN [s EXCEPT !.reply = ReplyError("EROFS")]
              ELSE LET r == insert_file(s, parent, name, now, oks) IN
                   IF r.res = None THEN [r.st EXCEPT !.reply = ReplyError("ENOSYS")]
                   ELSE [r.st EXCEPT !.reply =
                            ReplyCreated(file_attr(r.res[1], 0, Some(now), Some(now)))]
         ELSE s

create(s0, parent, name, now, oks) ==
    LET s == Begin(s0) IN
    IF parent = 1 THEN [s EXCEPT !.reply = ReplyError("ENOENT")]
    ELSE IF parent \in DOMAIN s.table_dir_inodes
              /\ s.table_dir_inodes[parent] \in DOMAIN s.tables
         THEN IF s.tables[s.table_dir_inodes[parent]].read_only
              THEN [s EXCEPT !.reply = ReplyError("EROFS")]
              ELSE LET r == insert_file(s, parent, name, now, oks) IN
                   IF r.res = None THEN [r.st EXCEPT !.reply = ReplyError("ENOSYS")]
                   ELSE [r.st EXCEPT !.reply =
                            ReplyCreated(file_attr(r.res[1], 0, Some(now), Some(now)))]
         ELSE s

(***************************************************************************)
(* State                                                                   *)
(***************************************************************************)
VARIABLES
    next_inode,         \* ByteaFileSystem.next_inode
    tables,             \* ByteaFileSystem.tables: table name -> Table
    tables_order,       \* the iteration order of the tables HashMap
    inode_file_attrs,   \* ByteaFileSystem.inode_file_attrs: inode -> FileAttr
    table_dir_inodes,   \* ByteaFileSystem.table_dir_inodes: inode <-> table name
    file_inodes,        \* ByteaFileSystem.file_inodes: inode -> (Table, PgId)
    entries,            \* ByteaFileSystem.entries: ChildNode <-> inode
    cache,              \* ByteaFileSystem.cache: inode -> (offset, bytes)
    db,                 \* the database behind db_client
    status,             \* "mounted", "destroyed" (unmounted) or "panicked"
    reply,              \* the reply to the last request
    sql,                \* the statements the last request sent to the database
    req,                \* the last request
    nops,               \* number of requests delivered
    config,             \* the read_only keys of the configuration file
    deleted             \* the (table, row id) pairs a DELETE was issued for

vars == <<next_inode, tables, tables_order, inode_file_attrs, table_dir_inodes,
          file_inodes, entries, cache, db, status, reply, sql, req, nops, config,
          deleted>>

\* the ByteaFileSystem and its database as one value
St ==
    [next_inode |-> next_inode, tables |-> tables, tables_order |-> tables_order,
     inode_file_attrs |-> inode_file_attrs, table_dir_inodes |-> table_dir_inodes,
     file_inodes |-> file_inodes, entries |-> entries, cache |-> cache, db |-> db,
     status |-> status, reply |-> reply, sql |-> sql]

\* the request r is delivered and its handler leaves the state s; at most
\* max requests are delivered
Deliver(r, s, max) ==
    /\ status = "mounted"
    /\ nops < max
    /\ s.next_inode <= MaxInode
    /\ next_inode' = s.next_inode
    /\ tables' = s.tables
    /\ tables_order' = s.tables_order
    /\ inode_file_attrs' = s.inode_file_attrs
    /\ table_dir_inodes' = s.table_dir_inodes
    /\ file_inodes' = s.file_inodes
    /\ entries' = s.entries
    /\ cache' = s.cache
    /\ db' = s.db
    /\ status' = s.status
    /\ reply' = s.reply
    /\ sql' = s.sql
    /\ req' = r
    /\ nops' = nops + 1
    /\ config' = config
    /\ deleted' = deleted \cup
            { <<s.sql[k].st.table, s.sql[k].st.id>> :
                k \in {j \in 1..Len(s.sql) : s.sql[j].st.kind = "delete"} }

(***************************************************************************)
(* Inputs                                                                  *)
(***************************************************************************)
\* the tables handed to ByteaFileSystem::new: one writable with both time
\* columns, one read-only without
TABLES ==
    << [table_name |-> "notes", read_only |-> FALSE,
        created_field |-> Some("created"), modified_field |-> Some("modified")],
       [table_name |-> "pics", read_only |-> TRUE,
        created_field |-> None, modified_field |-> None] >>

abc == <<[b |-> "a", n |-> 1], [b |-> "b", n |-> 1], [b |-> "c", n |-> 1]>>

\* the database at mount
DB0 ==
    [t \in {"notes", "pics"} |->
        IF t = "notes" THEN [rows |-> (1 :> Row("a", Some(abc))), serial |-> 2]
        ELSE [rows |-> (1 :> Row("p", Some(Run("P", 2)))), serial |-> 2]]

\* a configuration file that asks for the tables of TABLES
CONFIG0 == [default |-> None, notes |-> Some("false"), pics |-> Some("true")]

Orders == {<<"notes", "pics">>, <<"pics", "notes">>}

de == <<[b |-> "d", n |-> 1], [b |-> "e", n |-> 1]>>

\* the kernel names the root and the inodes it was given
Inodes == 1..next_inode
\* inodes named in file requests
FileArgs == 2..next_inode
\* (offset, data) of a write
WriteArgs ==
    { <<3, de>>, <<0, Run("Z", 1)>>, <<0, Run("X", MiB)>>, <<MiB, Run("Y", MiB)>>,
      <<2 * MiB, Run("Z", 1)>> }
\* (offset, size) of a read
ReadArgs == { <<0, 3 * MiB>>, <<2, 2>> }
\* (size, mtime, ctime) of a setattr
SetattrArgs ==
    { <<Some(2), None, None>>, <<Some(2), None, Some(1)>>, <<None, Some([now |-> TRUE]), None>> }
\* SystemTime::now()
Clock == {2}
\* (offset, capacity in entries) of a readdir
ReaddirArgs == { <<0, 8>>, <<0, 1>>, <<2, 1>> }
\* (parent, name, newparent, newname) of a rename
RenameArgs == { <<2, "a", 2, "b">>, <<2, "b", 2, "a">>, <<2, "a", 3, "a">> }
\* (parent, name) of lookup, unlink, mknod, create
ChildArgs == { <<1, "a">>, <<1, "notes">>, <<2, "a">>, <<2, "b">>, <<3, "p">> }
\* outcomes of the n database calls a handler can make, in call order
Oks(n) == [1..n -> BOOLEAN]
AllOk == [k \in 1..3 |-> TRUE]

(***************************************************************************)
(* Actions                                                                 *)
(***************************************************************************)
\* ByteaFileSystem::new over two table bindings, one writable and one
\* read-only (Table.read_only, main.rs:263), in either HashMap order
Init ==
    \E order \in Orders :
        /\ LET s == new(TABLES, DB0, order) IN
            /\ next_inode = s.next_inode
            /\ tables = s.tables
            /\ tables_order = s.tables_order
            /\ inode_file_attrs = s.inode_file_attrs
            /\ table_dir_inodes = s.table_dir_inodes
            /\ file_inodes = s.file_inodes
            /\ entries = s.entries
            /\ cache = s.cache
            /\ db = s.db
            /\ status = s.status
            /\ reply = s.reply
            /\ sql = s.sql
        /\ req = [op |-> "mount"]
        /\ nops = 0
        /\ config = CONFIG0
        /\ deleted = {}

Destroy ==
    /\ status = "mounted"
    /\ Deliver([op |-> "destroy"], destroy(St), MaxOps)

Lookup ==
    \E c \in ChildArgs :
        Deliver([op |-> "lookup", parent |-> c[1], name |-> c[2]], lookup(St, c[1], c[2]), MaxOps)

Getattr ==
    \E ino \in Inodes :
        Deliver([op |-> "getattr", ino |-> ino], getattr(St, ino), MaxOps)

\* no element of SetattrArgs makes more than two database calls
Setattr ==
    \E ino \in FileArgs, a \in SetattrArgs, now \in Clock, oks \in Oks(2) :
        Deliver([op |-> "setattr", ino |-> ino, size |-> a[1], mtime |-> a[2], ctime |-> a[3]],
                setattr(St, ino, a[1], a[2], a[3], now, oks), MaxOps)

Unlink ==
    \E c \in ChildArgs, oks \in Oks(1) :
        Deliver([op |-> "unlink", parent |-> c[1], name |-> c[2]],
                unlink(St, c[1], c[2], oks), MaxOps)

Rename ==
    \E a \in RenameArgs, oks \in Oks(1) :
        Deliver([op |-> "rename", parent |-> a[1], name |-> a[2],
                 newparent |-> a[3], newname |-> a[4]],
                rename(St, a[1], a[2], a[3], a[4], oks), MaxOps)

Read ==
    \E ino \in FileArgs, a \in ReadArgs, oks \in Oks(2) :
        Deliver([op |-> "read", ino |-> ino, offset |-> a[1], size |-> a[2]],
                read(St, ino, a[1], a[2], oks), MaxOps)

Write ==
    \E ino \in FileArgs, a \in WriteArgs, oks \in Oks(2) :
        Deliver([op |-> "write", ino |-> ino, offset |-> a[1], data |-> a[2]],
                write(St, ino, a[1], a[2], oks), MaxOps)

Flush ==
    \E ino \in FileArgs, oks \in Oks(1) :
        Deliver([op |-> "flush", ino |-> ino], flush(St, ino, oks), MaxOps)

Release ==
    \E ino \in FileArgs, oks \in Oks(1) :
        Deliver([op |-> "release", ino |-> ino], release(St, ino, oks), MaxOps)

Fsync ==
    \E ino \in FileArgs, oks \in Oks(1) :
        Deliver([op |-> "fsync", ino |-> ino], fsync(St, ino, oks), MaxOps)

Readdir ==
    \E ino \in Inodes, a \in ReaddirArgs, oks \in Oks(1) :
        Deliver([op |-> "readdir", ino |-> ino, offset |-> a[1], cap |-> a[2]],
                readdir(St, ino, a[1], a[2], oks), MaxOps)

Mknod ==
    \E c \in ChildArgs, now \in Clock, oks \in Oks(1) :
        Deliver([op |-> "mknod", parent |-> c[1], name |-> c[2]],
                mknod(St, c[1], c[2], now, oks), MaxOps)

Create ==
    \E c \in ChildArgs, now \in Clock, oks \in Oks(1) :
        Deliver([op |-> "create", parent |-> c[1], name |-> c[2]],
                create(St, c[1], c[2], now, oks), MaxOps)

Next ==
    \/ Destroy
    \/ Lookup
    \/ Getattr
    \/ Setattr
    \/ Unlink
    \/ Rename
    \/ Read
    \/ Write
    \/ Flush
    \/ Release
    \/ Fsync
    \/ Readdir
    \/ Mknod
    \/ Create

Spec == Init /\ [][Next]_vars

(***************************************************************************)
(* One file written, flushed, read and truncated: the data path alone,     *)
(* followed for more requests than Spec delivers.                          *)
(***************************************************************************)
MaxFileOps == 4

FileReaddir ==
    \E oks \in Oks(1) :
        Deliver([op |-> "readdir", ino |-> 2, offset |-> 0, cap |-> 8],
                readdir(St, 2, 0, 8, oks), MaxFileOps)

FileWrite ==
    \E ino \in DOMAIN file_inodes, a \in WriteArgs, oks \in Oks(2) :
        Deliver([op |-> "write", ino |-> ino, offset |-> a[1], data |-> a[2]],
                write(St, ino, a[1], a[2], oks), MaxFileOps)

FileFlush ==
    \E ino \in DOMAIN file_inodes, oks \in Oks(1) :
        Deliver([op |-> "flush", ino |-> ino], flush(St, ino, oks), MaxFileOps)

FileRead ==
    \E ino \in DOMAIN file_inodes, a \in ReadArgs, oks \in Oks(2) :
        Deliver([op |-> "read", ino |-> ino, offset |-> a[1], size |-> a[2]],
                read(St, ino, a[1], a[2], oks), MaxFileOps)

FileSetattr ==
    \E ino \in DOMAIN file_inodes, oks \in Oks(1) :
        Deliver([op |-> "setattr", ino |-> ino, size |-> Some(2), mtime |-> None,
                 ctime |-> None],
                setattr(St, ino, Some(2), None, None, 2, oks), MaxFileOps)

NextFile ==
    \/ FileReaddir
    \/ FileWrite
    \/ FileFlush
    \/ FileRead
    \/ FileSetattr

SpecFile == Init /\ [][NextFile]_vars

(***************************************************************************)
(* The program as main() starts it: the configuration file is parsed by    *)
(* PgfsConfig::new and the tables handed to ByteaFileSystem::new are built *)
(* from the parsed table_config.  Only the read_only keys of the file      *)
(* vary; a key is absent (None) or holds the TOML value "true", "false"    *)
(* or something that is not a boolean ("other").                           *)
(***************************************************************************)
MaxMainOps == 2

TomlKey == {None, Some("true"), Some("false"), Some("other")}

Configs == [default : TomlKey, notes : TomlKey, pics : TomlKey]

\* toml::Value::as_bool
as_bool(v) == IF v = "true" THEN Some(TRUE) ELSE IF v = "false" THEN Some(FALSE) ELSE None

\* Option::unwrap_or
unwrap_or(o, d) == IF o = None THEN d ELSE o[1]

\* the read_only of the defaults after the "default" section was read
defaults_read_only(cfg) ==
    IF cfg.default # None THEN unwrap_or(as_bool(cfg.default[1]), TRUE) ELSE TRUE

\* PgfsConfig::new: table_config, one TableConfig per table section
PgfsConfig_new(cfg) ==
    [n \in {"notes", "pics"} |->
        [table_name |-> n,
         read_only |-> IF cfg[n] # None THEN unwrap_or(as_bool(cfg[n][1]), TRUE)
                       ELSE defaults_read_only(cfg),
         created_date_field |-> IF n = "notes" THEN Some("created") ELSE None,
         modified_date_field |-> IF n = "notes" THEN Some("modified") ELSE None]]

\* the tables main() builds from table_config
main_tables(cfg) ==
    LET tc == PgfsConfig_new(cfg)
        Table(fs) == [table_name |-> fs.table_name, read_only |-> FALSE,
                      created_field |-> fs.created_date_field,
                      modified_field |-> fs.modified_date_field]
    IN << Table(tc["notes"]), Table(tc["pics"]) >>

InitMain ==
    \E cfg \in Configs, order \in Orders :
        /\ LET s == new(main_tables(cfg), DB0, order) IN
            /\ next_inode = s.next_inode
            /\ tables = s.tables
            /\ tables_order = s.tables_order
            /\ inode_file_attrs = s.inode_file_attrs
            /\ table_dir_inodes = s.table_dir_inodes
            /\ file_inodes = s.file_inodes
            /\ entries = s.entries
            /\ cache = s.cache
            /\ db = s.db
            /\ status = s.status
            /\ reply = s.reply
            /\ sql = s.sql
        /\ req = [op |-> "mount"]
        /\ nops = 0
        /\ config = cfg
        /\ deleted = {}

MainCreate ==
    \E c \in ChildArgs, now \in Clock, oks \in Oks(1) :
        Deliver([op |-> "create", parent |-> c[1], name |-> c[2]],
                create(St, c[1], c[2], now, oks), MaxMainOps)

MainReaddir ==
    \E ino \in 2..3, oks \in Oks(1) :
        Deliver([op |-> "readdir", ino |-> ino, offset |-> 0, cap |-> 8],
                readdir(St, ino, 0, 8, oks), MaxMainOps)

NextMain ==
    \/ MainCreate
    \/ MainReaddir

SpecMain == InitMain /\ [][NextMain]_vars

(***************************************************************************)
(* Properties                                                              *)
(***************************************************************************)
\* the statements of a SQL log, without their outcomes
Stmts(log) == [k \in 1..Len(log) |-> log[k].st]

Mutating == {"overlay", "truncate", "delete", "insert", "rename", "set_created", "set_modified"}

ENOENT == ReplyError("ENOENT")

\* C1 (as claimed): round trip. In every reachable state, for every file
\* inode i and every write (o, b): write(i, o, b), flush(i), read(i, o, |b|)
\* with every database call succeeding reads back b.
C1_RoundTrip ==
    \A i \in DOMAIN file_inodes, a \in WriteArgs :
        LET s1 == write(St, i, a[1], a[2], AllOk)
            s2 == flush(s1, i, AllOk)
            s3 == read(s2, i, a[1], BLen(a[2]), AllOk)
        IN s3.reply = ReplyData(a[2])

\* C2: coalescing. In every reachable state, for a file inode i without a
\* pending entry: a write (o, b1) and a contiguous write of b2 (together at
\* most 2 MiB) send no SQL and leave the database alone, whatever the
\* database would answer, and the flush that follows sends exactly one
\* overlay, from o + 1 (SQL positions are 1-based), carrying b1 followed by b2.
C2_Coalescing ==
    \A i \in DOMAIN file_inodes :
        i \notin DOMAIN cache =>
            \A a \in WriteArgs, a2 \in WriteArgs, oks \in Oks(2) :
                LET b1 == a[2]
                    b2 == a2[2]
                    s1 == write(St, i, a[1], b1, oks)
                    s2 == write(s1, i, a[1] + BLen(b1), b2, oks)
                    s3 == flush(s2, i, oks)
                    f1 == flush(s1, i, oks)
                IN /\ s1.sql = <<>> /\ s1.db = db
                   /\ Stmts(f1.sql) = <<overlay_stmt(file_inodes[i], a[1], b1)>>
                   /\ BLen(b1) + BLen(b2) <= CACHE_LIMIT =>
                        /\ s2.sql = <<>> /\ s2.db = db
                        /\ Stmts(s3.sql) =
                              << [kind |-> "overlay",
                                  table |-> file_inodes[i].table.table_name,
                                  data |-> BCat(b1, b2), from |-> a[1] + 1,
                                  for |-> BLen(b1) + BLen(b2),
                                  id |-> file_inodes[i].pgid.pg_id] >>

\* a flush has sent one overlay carrying 1 MiB of X and 1 MiB of Y: two
\* writes were coalesced
C2_Witness ==
    /\ req.op = "flush"
    /\ Len(sql) = 1
    /\ sql[1].st.kind = "overlay"
    /\ sql[1].st.from = 1
    /\ sql[1].st.data = BCat(Run("X", MiB), Run("Y", MiB))

\* the bytes that fill the pending entry c exactly to the limit, and one more
FillExactly(c) == Run("Q", CACHE_LIMIT - BLen(c.data))
FillOver(c) == Run("Q", CACHE_LIMIT - BLen(c.data) + 1)

\* a contiguous write that makes the pending entry of a file exactly 2 MiB
\* long is appended and sends no SQL
AppendsAtLimit(i) ==
    LET c == cache[i]
        d == FillExactly(c)
    IN d # <<>> =>
        \A oks \in Oks(2) :
            LET s1 == write(St, i, c.offset + BLen(c.data), d, oks) IN
            /\ s1.sql = <<>>
            /\ s1.db = db
            /\ i \in DOMAIN s1.cache
            /\ s1.cache[i] = [offset |-> c.offset, data |-> BCat(c.data, d)]
            /\ BLen(s1.cache[i].data) = 2097152

C4_NonContiguousBreak ==
    [][ (/\ req'.op = "write"
         /\ req'.ino \in DOMAIN file_inodes
         /\ req'.ino \in DOMAIN cache
         /\ req'.offset # cache[req'.ino].offset + BLen(cache[req'.ino].data))
        => /\ Stmts(sql') =
                << overlay_stmt(file_inodes[req'.ino], cache[req'.ino].offset,
                                cache[req'.ino].data),
                   overlay_stmt(file_inodes[req'.ino], req'.offset, req'.data) >>
           /\ req'.ino \notin DOMAIN cache' ]_vars

\* C5 (as claimed): truncate shortens. In every reachable state, when
\* setattr(i, size = s) with s below the attribute size replies the
\* attributes, the attribute size is s, read(i, s, k) is empty and
\* read(i, 0, n) gives at most s bytes.
C5_TruncateShortens ==
    \A i \in DOMAIN file_inodes \cap DOMAIN inode_file_attrs, sz \in {0, 2} :
        LET s1 == setattr(St, i, Some(sz), None, None, 2, AllOk) IN
        (sz < inode_file_attrs[i].size /\ s1.reply.kind = "attr") =>
            /\ s1.reply.attr.size = sz
            /\ \A k \in {1, 3 * MiB} :
                    /\ read(s1, i, sz, k, AllOk).reply = ReplyData(<<>>)
                    /\ BLen(read(s1, i, 0, k, AllOk).reply.data) <= sz

\* C6 (as claimed, its second half): no INSERT, UPDATE or DELETE is ever
\* sent to the database for a table whose binding is read-only.
C6_ReadOnlyNoSql ==
    status = "mounted" =>
        \A k \in 1..Len(sql) :
            sql[k].st.kind \in Mutating => ~tables[sql[k].st.table].read_only

RegistryVars ==
    <<next_inode, tables, inode_file_attrs, table_dir_inodes, file_inodes, entries, cache, db>>

ReadOnlyDir(parent) ==
    /\ parent \in DOMAIN table_dir_inodes
    /\ table_dir_inodes[parent] \in DOMAIN tables
    /\ tables[table_dir_inodes[parent]].read_only

\* C7: rejected requests have no effect. create/mknod under the root replies
\* ENOENT, create/mknod under a read-only table replies EROFS, rename to
\* another parent replies ENOSYS; each sends no SQL and leaves the maps, the
\* attributes, the cache, the inode counter and the database as they were.
C7_RejectedNoEffect ==
    [][ /\ (req'.op \in {"create", "mknod"} /\ req'.parent = 1)
            => reply' = ReplyError("ENOENT") /\ sql' = <<>> /\ UNCHANGED RegistryVars
        /\ (req'.op \in {"create", "mknod"} /\ ReadOnlyDir(req'.parent))
            => reply' = ReplyError("EROFS") /\ sql' = <<>> /\ UNCHANGED RegistryVars
        /\ (req'.op = "rename" /\ req'.parent # req'.newparent)
            => reply' = ReplyError("ENOSYS") /\ sql' = <<>> /\ UNCHANGED RegistryVars
      ]_vars

\* a create under the read-only table has been rejected
C7_Witness ==
    /\ req.op = "create"
    /\ ReadOnlyDir(req.parent)
    /\ reply = ReplyError("EROFS")
    /\ nops > 1

\* C8: after unlink of a bound file replies success, lookup of the name and
\* getattr of the removed inode answer not-found; a name that lookup does
\* not find stays not found until a readdir, create or mknod, and an inode
\* without attributes never gets any.
C8_UnlinkedStaysGone ==
    [][ /\ (/\ req'.op = "unlink"
             /\ ChildNode(req'.parent, req'.name) \in DOMAIN entries
             /\ reply' = ReplyOk)
            => /\ lookup(St', req'.parent, req'.name).reply = ENOENT
               /\ getattr(St', entries[ChildNode(req'.parent, req'.name)]).reply = ENOENT
        /\ \A c \in ChildArgs :
              (/\ c[1] # 1
               /\ lookup(St, c[1], c[2]).reply = ENOENT
               /\ req'.op \notin {"readdir", "create", "mknod"})
              => lookup(St', c[1], c[2]).reply = ENOENT
        /\ \A i \in 2..next_inode :
              getattr(St, i).reply = ENOENT => getattr(St', i).reply = ENOENT
      ]_vars

\* a lookup of a name whose file was unlinked, and whose row is deleted, has
\* answered not-found, and the inode has no attributes
C8_Witness ==
    /\ req = [op |-> "lookup", parent |-> 2, name |-> "a"]
    /\ reply = ENOENT
    /\ 1 \notin DOMAIN db["notes"].rows
    /\ \E i \in 4..next_inode : i \notin DOMAIN inode_file_attrs

\* C9 (as claimed): when unlink of a bound name that a writable table lists
\* replies success, the table no longer has a row of that name.
C9_UnlinkRemovesRow ==
    [][ (/\ req'.op = "unlink"
         /\ ~ReadOnlyDir(req'.parent)
         /\ ChildNode(req'.parent, req'.name) \in DOMAIN entries
         /\ req'.name \in Names(db[table_dir_inodes[req'.parent]])
         /\ reply' = ReplyOk)
        => req'.name \notin Names(db'[table_dir_inodes[req'.parent]]) ]_vars

\* C10: between mount and unmount an inode has an attribute record exactly
\* when it is in the table-directory map or in the file-identity map.
C10_AttrsIffRegistered ==
    status = "mounted" =>
        DOMAIN inode_file_attrs = DOMAIN table_dir_inodes \cup DOMAIN file_inodes

\* files were bound and one of them has been unlinked
C10_Witness ==
    /\ status = "mounted"
    /\ req.op = "unlink"
    /\ Len(sql) = 1
    /\ \E i \in 4..next_inode : i \notin DOMAIN inode_file_attrs
    /\ DOMAIN file_inodes # {}

\* C11 (as claimed): in every reachable state every inode of the
\* file-identity map is the value of exactly one (parent, name) child key,
\* and every child key points to an inode of the file-identity map.
C11_IdentityHasOneName ==
    /\ \A i \in DOMAIN file_inodes :
            Cardinality({c \in DOMAIN entries : entries[c] = i}) = 1
    /\ \A c \in DOMAIN entries : entries[c] \in DOMAIN file_inodes

\* C12 (as claimed): in every reachable state, a file inode with a pending
\* cache entry (o, b) has an attribute size of at least o + |b|.
C12_SizeCoversCache ==
    \A i \in DOMAIN cache \cap DOMAIN file_inodes :
        /\ i \in DOMAIN inode_file_attrs
        /\ inode_file_attrs[i].size >= cache[i].offset + BLen(cache[i].data)

\* C13 (as claimed): in every reachable state every inode with a pending
\* cache entry is in the file-identity map.
C13_CacheOnlyForFiles ==
    \A i \in DOMAIN cache : i \in DOMAIN file_inodes

\* the number of configured tables
NTables == Len(TABLES)

\* C14: inode allocation is strictly increasing. The table directories hold
\* inodes 2..N+1; the inode counter never decreases and bounds every inode
\* in use; an inode newly given to a file is greater than the counter was
\* before (so greater than N+1 and than every inode allocated earlier, and
\* never one that was unlinked); no inode is both a directory and a file.
C14_InodesIncrease ==
    [][ /\ DOMAIN table_dir_inodes = 2..(NTables + 1)
        /\ DOMAIN table_dir_inodes' = 2..(NTables + 1)
        /\ next_inode >= NTables + 1
        /\ next_inode' >= next_inode
        /\ \A i \in DOMAIN file_inodes' : i <= next_inode' /\ i > NTables + 1
        /\ \A i \in DOMAIN file_inodes' \ DOMAIN file_inodes : i > next_inode
        /\ DOMAIN file_inodes' \cap DOMAIN table_dir_inodes' = {}
      ]_vars

\* inode 4 was bound by readdir and unlinked (its row is deleted); the file
\* created afterwards has inode 5
C14_Witness ==
    /\ req.op = "create"
    /\ reply.kind = "created"
    /\ 1 \notin DOMAIN db["notes"].rows
    /\ next_inode = 5
    /\ DOMAIN file_inodes = {5}

\* C15 (as claimed): after rename(parent, name, parent, newname) of a bound
\* name replies success, lookup(parent, newname) gives the inode that was
\* bound to (parent, name) and lookup(parent, name) answers not-found.
C15_RenameMovesBinding ==
    [][ (/\ req'.op = "rename"
         /\ req'.parent = req'.newparent
         /\ req'.name # req'.newname
         /\ ChildNode(req'.parent, req'.name) \in DOMAIN entries
         /\ entries[ChildNode(req'.parent, req'.name)] \in DOMAIN inode_file_attrs
         /\ reply' = ReplyOk)
        => /\ lookup(St', req'.parent, req'.newname).reply =
                ReplyEntry(inode_file_attrs'[entries[ChildNode(req'.parent, req'.name)]])
           /\ lookup(St', req'.parent, req'.name).reply = ENOENT ]_vars

\* C16 (as claimed): overlay idempotence. In every reachable state, for a
\* file i without a pending entry and every write (o, b), the database after
\* write(i, o, b); flush(i); write(i, o, b); flush(i) equals the database
\* after one write(i, o, b); flush(i), every database call succeeding.
C16_OverlayIdempotent ==
    \A i \in DOMAIN file_inodes \ DOMAIN cache, a \in WriteArgs :
        LET once == flush(write(St, i, a[1], a[2], AllOk), i, AllOk)
            twice == flush(write(once, i, a[1], a[2], AllOk), i, AllOk)
        IN twice.db = once.db

\* C17 (as claimed): a request during which a database call failed ends in
\* a reply, and the filesystem keeps serving.
C17_FailureEndsInReply ==
    (\E k \in 1..Len(sql) : ~sql[k].ok) => status = "mounted" /\ reply # NoReply

\* C18 (as claimed): setattr(i, size) on a file with a pending cache entry
\* sends the overlay of that entry, then the truncate statement, and leaves
\* no cache entry for i.
C18_FlushBeforeTruncate ==
    [][ (/\ req'.op = "setattr"
         /\ req'.size # None
         /\ req'.ino \in DOMAIN file_inodes \cap DOMAIN cache)
        => /\ Len(sql') >= 2
           /\ sql'[1].st = overlay_stmt(file_inodes[req'.ino], cache[req'.ino].offset,
                                        cache[req'.ino].data)
           /\ sql'[2].st.kind = "truncate"
           /\ req'.ino \notin DOMAIN cache' ]_vars

\* C19 (as claimed): create or mknod of a (parent, name) that is already
\* bound replies an error and leaves the name bound to the same inode.
C19_BoundNameNotReplaced ==
    [][ (/\ req'.op \in {"create", "mknod"}
         /\ ChildNode(req'.parent, req'.name) \in DOMAIN entries)
        => /\ reply'.kind = "error"
           /\ ChildNode(req'.parent, req'.name) \in DOMAIN entries'
           /\ entries'[ChildNode(req'.parent, req'.name)] =
                entries[ChildNode(req'.parent, req'.name)] ]_vars

\* C20 (as claimed): when the truncate statement of a setattr fails the
\* attribute size is unchanged; when its created (modified) time statement
\* fails the attribute ctime (mtime) is unchanged.
C20_SetattrOnlyOnSuccess ==
    [][ (/\ req'.op = "setattr"
         /\ req'.ino \in DOMAIN inode_file_attrs
         /\ req'.ino \in DOMAIN inode_file_attrs')
        => \A k \in 1..Len(sql') :
             ~sql'[k].ok =>
                /\ sql'[k].st.kind = "truncate" =>
                      inode_file_attrs'[req'.ino].size = inode_file_attrs[req'.ino].size
                /\ sql'[k].st.kind = "set_created" =>
                      inode_file_attrs'[req'.ino].ctime = inode_file_attrs[req'.ino].ctime
                /\ sql'[k].st.kind = "set_modified" =>
                      inode_file_attrs'[req'.ino].mtime = inode_file_attrs[req'.ino].mtime
      ]_vars

\* a statement of the given kind failed in the request handled last
Failed(kind) == \E k \in 1..Len(sql) : sql[k].st.kind = kind /\ ~sql[k].ok

\* C21 (as claimed): when the truncate statement of a setattr fails the
\* reply is EIO whatever happens to the time statements; EPERM is replied
\* only when a time statement failed and no truncate failed; when no
\* statement failed and the inode has attributes, the reply is the
\* updated attributes.
C21_SetattrErrorClass ==
    (req.op = "setattr" /\ status = "mounted") =>
        /\ Failed("truncate") => reply = ReplyError("EIO")
        /\ reply = ReplyError("EPERM") =>
                /\ Failed("set_created") \/ Failed("set_modified")
                /\ ~Failed("truncate")
        /\ ((\A k \in 1..Len(sql) : sql[k].ok) /\ req.ino \in DOMAIN inode_file_attrs)
                => reply = ReplyAttr(inode_file_attrs[req.ino])

\* C22 (as claimed): in every reachable state the block count of every
\* regular-file attribute record is ceil((size + 1) / blocksize), with a
\* blocksize of 512 KiB.
C22_BlocksAreCeil ==
    \A i \in DOMAIN inode_file_attrs :
        inode_file_attrs[i].kind = "RegularFile" =>
            /\ inode_file_attrs[i].blksize = 512 * 1024
            /\ inode_file_attrs[i].blocks =
                  (inode_file_attrs[i].size + 1 + (512 * 1024 - 1)) \div (512 * 1024)

\* C23 (as claimed): a readdir of a table directory creates a binding only
\* for rows it emits: every child key it adds names an entry of the reply,
\* so nothing is bound for a row after the reply buffer is full.
C23_ReaddirStopsWhenFull ==
    [][ (req'.op = "readdir" /\ req'.ino \in DOMAIN table_dir_inodes /\ reply'.kind = "dir")
        => \A c \in DOMAIN entries' \ DOMAIN entries :
             \E k \in 1..Len(reply'.entries) :
                reply'.entries[k].name = c.name /\ reply'.entries[k].ino = entries'[c] ]_vars

\* the inode a directory reply reports for a name, 0 when it has no such entry
ReportedIno(r, name) ==
    IF r.kind = "dir" /\ \E k \in 1..Len(r.entries) : r.entries[k].name = name
    THEN r.entries[CHOOSE k \in 1..Len(r.entries) : r.entries[k].name = name].ino
    ELSE 0

C25_FlushEmptiesCache ==
    (req.op \in {"flush", "fsync", "release"} /\ status = "mounted") =>
        /\ reply = ReplyOk
        /\ req.ino \notin DOMAIN cache

\* C26 (as claimed): unlink of a bound file with a pending cache entry sends
\* the overlay of that entry and then the delete statement.
C26_UnlinkFlushesFirst ==
    [][ (/\ req'.op = "unlink"
         /\ ChildNode(req'.parent, req'.name) \in DOMAIN entries
         /\ entries[ChildNode(req'.parent, req'.name)] \in DOMAIN file_inodes \cap DOMAIN cache)
        => LET ino == entries[ChildNode(req'.parent, req'.name)] IN
           /\ Len(sql') = 2
           /\ sql'[1].st = overlay_stmt(file_inodes[ino], cache[ino].offset, cache[ino].data)
           /\ sql'[2].st.kind = "delete" ]_vars
(***************************************************************************)
(* The life of a row of the writable table: listed, renamed, unlinked,     *)
(* written and flushed, also through an inode that stays open across the   *)
(* unlink.                                                                 *)
(***************************************************************************)
MaxRowOps == 6

RowReaddir ==
    \E oks \in Oks(1) :
        Deliver([op |-> "readdir", ino |-> 2, offset |-> 0, cap |-> 8],
                readdir(St, 2, 0, 8, oks), MaxRowOps)

RowRename ==
    \E oks \in Oks(1) :
        Deliver([op |-> "rename", parent |-> 2, name |-> "a", newparent |-> 2,
                 newname |-> "b"],
                rename(St, 2, "a", 2, "b", oks), MaxRowOps)

RowUnlink ==
    \E name \in {"a", "b"}, oks \in Oks(1) :
        Deliver([op |-> "unlink", parent |-> 2, name |-> name],
                unlink(St, 2, name, oks), MaxRowOps)

RowWrite ==
    \E ino \in 4..next_inode, oks \in Oks(2) :
        Deliver([op |-> "write", ino |-> ino, offset |-> 0, data |-> Run("Z", 1)],
                write(St, ino, 0, Run("Z", 1), oks), MaxRowOps)

RowFlush ==
    \E ino \in 4..next_inode, oks \in Oks(1) :
        Deliver([op |-> "flush", ino |-> ino], flush(St, ino, oks), MaxRowOps)

NextRow ==
    \/ RowReaddir
    \/ RowRename
    \/ RowUnlink
    \/ RowWrite
    \/ RowFlush

SpecRow == Init /\ [][NextRow]_vars

\* C27: the read-only flag of every table binding of the dispatcher is the
\* read_only value the configuration file gives for the table (its own key,
\* else the key of the default section, else true), and a create under a
\* table that the configuration makes read-only is answered EROFS.
C27_ReadOnlyFromConfig ==
    /\ \A n \in DOMAIN tables :
            tables[n].read_only = PgfsConfig_new(config)[n].read_only
    /\ ( /\ req.op = "create"
         /\ req.parent \in DOMAIN table_dir_inodes
         /\ PgfsConfig_new(config)[table_dir_inodes[req.parent]].read_only )
            => reply = ReplyError("EROFS")

\* C28: in every reachable state every write-cache entry holds at most
\* 2,097,152 bytes, and stays so after any further write of 1 byte or of the
\* advertised maximum of 128 KiB, at offset 0 or at the end of the pending
\* entry, whatever the database answers.  (A write of 1 MiB of the model
\* leaves the cache as eight contiguous writes of 128 KiB leave it.)
C28_CacheBounded ==
    /\ \A i \in DOMAIN cache : BLen(cache[i].data) <= CACHE_LIMIT
    /\ \A i \in FileArgs, d \in {Run("Q", 1), Run("Q", MAX_WRITE)}, oks \in Oks(2) :
        \A off \in {0} \cup {cache[j].offset + BLen(cache[j].data) : j \in DOMAIN cache \cap {i}} :
            LET s1 == write(St, i, off, d, oks) IN
            \A j \in DOMAIN s1.cache : BLen(s1.cache[j].data) <= CACHE_LIMIT

\* a pending entry of exactly 2 MiB was built by contiguous writes
C28_Witness ==
    /\ req.op = "write"
    /\ sql = <<>>
    /\ \E i \in DOMAIN cache : BLen(cache[i].data) = CACHE_LIMIT

\* C29: a write that is written through with two successful overlays (the
\* pending entry (o, b), then the new bytes b' at o') leaves the attribute
\* size at max(previous size, o + |b|, o' + |b'|); a flush of the pending
\* entry (o, b) whose overlay succeeds leaves it at max(previous size, o + |b|).
C29_SizeAfterWriteThrough ==
    [][ /\ ( /\ req'.op = "write"
             /\ req'.ino \in DOMAIN file_inodes \cap DOMAIN cache \cap DOMAIN inode_file_attrs
             /\ Len(sql') = 2 /\ sql'[1].ok /\ sql'[2].ok )
            => LET c == cache[req'.ino] IN
               inode_file_attrs'[req'.ino].size =
                   Max(Max(inode_file_attrs[req'.ino].size, c.offset + BLen(c.data)),
                       req'.offset + BLen(req'.data))
        /\ ( /\ req'.op = "flush"
             /\ req'.ino \in DOMAIN file_inodes \cap DOMAIN cache \cap DOMAIN inode_file_attrs
             /\ Len(sql') = 1 /\ sql'[1].ok )
            => LET c == cache[req'.ino] IN
               inode_file_attrs'[req'.ino].size =
                   Max(inode_file_attrs[req'.ino].size, c.offset + BLen(c.data))
      ]_vars

\* the client of readdir: it asks at offset, keeps the names it is given and
\* asks again at the offset cookie of the last entry, until a reply is empty
\* or it has asked calls times; got is the sequence of names received so far
RECURSIVE Enumerate(_, _, _, _, _, _)
Enumerate(s, ino, offset, cap, got, calls) ==
    IF calls = 0 THEN [ended |-> FALSE, got |-> got]
    ELSE LET s1 == readdir(s, ino, offset, cap, AllOk) IN
         IF s1.reply.kind # "dir" THEN [ended |-> FALSE, got |-> got]
         ELSE IF s1.reply.entries = <<>> THEN [ended |-> TRUE, got |-> got]
         ELSE LET es == s1.reply.entries IN
              Enumerate(s1, ino, es[Len(es)].offset, cap,
                        got \o [k \in 1..Len(es) |-> es[k].name], calls - 1)

\* C30: enumerating a table directory ends. A client that reads the
\* directory from offset 0 and then from the cookie of the last entry it was
\* given gets an empty reply after at most one call per entry and one more,
\* having been given ".", ".." and the name of every row of the listing
\* exactly once, for a reply capacity of 1, 2 or 3 entries.
C30_EnumerationEnds ==
    status = "mounted" =>
        \A ino \in DOMAIN table_dir_inodes, cap \in 1..3 :
            LET rows == Listing(db[table_dir_inodes[ino]])
                e == Enumerate(St, ino, 0, cap, <<>>, Len(rows) + 3)
            IN /\ e.ended
               /\ Len(e.got) = Len(rows) + 2
               /\ {e.got[k] : k \in 1..Len(e.got)} =
                      {".", ".."} \cup {rows[k].name : k \in 1..Len(rows)}

\* C31: for every configured table directory the inode that readdir of the
\* root reports with its name is the inode bound to it at mount: the one of
\* the attributes lookup(1, name) replies and the one readdir accepts as a
\* table directory of that name.
C31_RootListsMountInodes ==
    status = "mounted" =>
        \A n \in DOMAIN tables :
            LET listed == ReportedIno(readdir(St, 1, 0, 8, AllOk).reply, n)
                found == lookup(St, 1, n).reply
            IN /\ found.kind = "entry"
               /\ listed = found.attr.ino
               /\ listed \in DOMAIN table_dir_inodes
               /\ table_dir_inodes[listed] = n

\* C32: row identity is unique. In every reachable state no two inodes of
\* the file-identity map carry the same (table inode, row id) pair.
C32_RowIdentityUnique ==
    \A i, j \in DOMAIN file_inodes :
        file_inodes[i].pgid = file_inodes[j].pgid => i = j

C34_AcknowledgedBytesKept ==
    ( /\ req.op = "write"
      /\ req.ino \in DOMAIN file_inodes
      /\ reply = ReplyWritten(BLen(req.data)) )
        => LET end == req.offset + BLen(req.data)
               EndsWith(d) == BDrop(d, BLen(d) - BLen(req.data)) = req.data
           IN \/ /\ req.ino \in DOMAIN cache
                 /\ cache[req.ino].offset + BLen(cache[req.ino].data) = end
                 /\ EndsWith(cache[req.ino].data)
              \/ \E k \in 1..Len(sql) :
                    /\ sql[k].st.kind = "overlay"
                    /\ sql[k].st.id = file_inodes[req.ino].pgid.pg_id
                    /\ sql[k].st.from - 1 + BLen(sql[k].st.data) = end
                    /\ EndsWith(sql[k].st.data)

\* C35: no overlay is issued for a row after the DELETE for that row was
\* issued: no statement of a request is an overlay of a (table, row id) pair
\* that a DELETE was issued for before the request.
C35_NoOverlayAfterDelete ==
    [][ \A k \in 1..Len(sql') :
            sql'[k].st.kind = "overlay"
                => <<sql'[k].st.table, sql'[k].st.id>> \notin deleted ]_vars

====
